---- MODULE Spec2Model ----
(***************************************************************************)
(* Ranking metrics of xib.ignite.metrics: mean_average_precision,          *)
(* precision_at, recall_at, the Batch/Epoch metric classes built on them   *)
(* and BatchMetric.attach.                                                 *)
(*                                                                         *)
(* Tensors are sequences of rows, a row a sequence over the classes        *)
(* 1..C (the source counts columns from 0; column j of the source is       *)
(* column j+1 here).  Floats are exact fractions <<n, d>> in lowest terms  *)
(* with d > 0, plus the IEEE specials NaN = <<0,0>>, +inf = <<1,0>>,       *)
(* -inf = <<-1,0>>.                                                        *)
(***************************************************************************)
EXTENDS Integers, Sequences, FiniteSets, TLC

\* ------------------------------------------------------------------ bounds
NumClasses == 2     \* C, the number of class columns of a well-formed batch
MaxScore == 1       \* scores are drawn from 0..MaxScore
MaxSamples == 3     \* rows of one tensor, and rows buffered over an epoch
MaxBatchRows == 1   \* rows of the batch one update() receives
MaxAttach == 2      \* attach() calls on one engine

VARIABLES
    tie,            \* order torch.argsort gives equal scores in this build
    annotations,    \* argument of the pure function under call
    scores,         \* argument of the pure function under call
    sizes,          \* argument of the pure function under call
    result,         \* what the last call did: [fn, status, value]
    metric,         \* class of the metric instance, "none" without one
    _sorted_sizes,  \* RecallAtBatch / RecallAtEpoch
    avg_precision,  \* MeanAveragePrecisionBatch
    y_true,         \* MeanAveragePrecisionEpoch
    y_score,        \* MeanAveragePrecisionEpoch
    _recall_at,     \* RecallAtBatch
    _y_true,        \* RecallAtEpoch
    _y_score,       \* RecallAtEpoch
    seen_true,      \* history: rows of y_true given to update() since reset()
    seen_score,     \* history: rows of y_score given to update() since reset()
    updates,        \* history: update() calls so far, counted up to 2
    fresh,          \* history: no update() since the last reset()
    handlers_started,   \* engine: handlers of Events.ITERATION_STARTED, in order
    handlers_completed, \* engine: handlers of Events.ITERATION_COMPLETED, in order
    state_output,   \* engine.state.output
    state_metrics,  \* engine.state.metrics, the published result map
    stage,          \* engine: where the run loop stands
    attached,       \* history: the names given to attach(), in call order
    ran             \* history: calls made by the handlers in this iteration

callVars == <<annotations, scores, sizes, result>>
objVars == <<metric, _sorted_sizes, avg_precision, y_true, y_score,
             _recall_at, _y_true, _y_score>>
histVars == <<seen_true, seen_score, updates, fresh>>
engineVars == <<handlers_started, handlers_completed, state_output, state_metrics,
                stage, attached, ran>>
vars == <<tie, callVars, objVars, histVars, engineVars>>

\* ------------------------------------------------------------ float values
NaN == <<0, 0>>
Inf == <<1, 0>>
NegInf == <<-1, 0>>

Abs(x) == IF x < 0 THEN -x ELSE x

RECURSIVE Gcd(_, _)
Gcd(a, b) == IF b = 0 THEN a ELSE Gcd(b, a % b)

\* the float n / d of two integers (IEEE: x/0 is +-inf, 0/0 is NaN)
IntDiv(n, d) ==
    IF d = 0 THEN (IF n = 0 THEN NaN ELSE IF n > 0 THEN Inf ELSE NegInf)
    ELSE LET g == Gcd(Abs(n), Abs(d))
             s == IF d < 0 THEN -1 ELSE 1
         IN  <<(s * n) \div g, (s * d) \div g>>

IsFinite(x) == x[2] # 0

FAdd(x, y) ==
    IF IsFinite(x) /\ IsFinite(y) THEN IntDiv(x[1] * y[2] + y[1] * x[2], x[2] * y[2])
    ELSE IF x = NaN \/ y = NaN THEN NaN
    ELSE IF IsFinite(x) THEN y
    ELSE IF IsFinite(y) THEN x
    ELSE IF x = y THEN x ELSE NaN

FSub(x, y) == FAdd(x, IF y = NaN THEN NaN ELSE <<-y[1], y[2]>>)

FMul(x, y) ==
    IF x = NaN \/ y = NaN THEN NaN
    ELSE IF IsFinite(x) /\ IsFinite(y) THEN IntDiv(x[1] * y[1], x[2] * y[2])
    ELSE IntDiv(x[1] * y[1], 0)

\* the float x / n for an integer n >= 1
FDivInt(x, n) == IF IsFinite(x) THEN IntDiv(x[1], x[2] * n) ELSE x

FLeq(x, y) == IsFinite(x) /\ IsFinite(y) /\ x[1] * y[2] <= y[1] * x[2]

RECURSIVE FSum(_)
FSum(seq) == IF seq = <<>> THEN <<0, 1>> ELSE FAdd(seq[1], FSum(Tail(seq)))

\* tensor.mean(): the sum over the entries divided by their number (NaN if none)
Mean(seq) == IF seq = <<>> THEN NaN ELSE FDivInt(FSum(seq), Len(seq))

\* ----------------------------------------------------------------- tensors
NumRows(t) == Len(t)
NumCols(t) == IF t = <<>> THEN 0 ELSE Len(t[1])

RECURSIVE SumTo(_, _)
SumTo(row, j) == IF j = 0 THEN 0 ELSE row[j] + SumTo(row, j - 1)

NumTrue(row) == SumTo(row, Len(row))

Max(S) == CHOOSE x \in S : \A y \in S : y <= x

Raise == [status |-> "raise", value |-> <<>>]
Ok(v) == [status |-> "ok", value |-> v]

\* torch.argsort(row, descending=True): class c comes before class d when it
\* scores higher; the order of equal scores is not fixed by the call (no
\* stable=True), it is what the build's sort does, recorded in `tie`.
Before(row, c, d, t) ==
    \/ row[c] > row[d]
    \/ row[c] = row[d] /\ (IF t = "lower" THEN c < d ELSE c > d)

argsort(row, t) ==
    [p \in 1..Len(row) |->
        CHOOSE c \in 1..Len(row) :
            Cardinality({d \in 1..Len(row) : Before(row, d, c, t)}) = p - 1]

\* number of columns of x[:, :stop] for a tensor of n columns (Python slice)
SliceLen(n, stop) ==
    IF stop >= 0 THEN (IF stop < n THEN stop ELSE n)
    ELSE (IF n + stop > 0 THEN n + stop ELSE 0)

\* column picked by x[:, i] on a tensor of m columns (Python index, 0-based,
\* negative from the end); 0 when it raises IndexError
Column(m, i) ==
    IF i >= 0 THEN (IF i < m THEN i + 1 ELSE 0)
    ELSE (IF m + i >= 0 THEN m + i + 1 ELSE 0)

\* sorted_labels[:, :max(sizes)]
TopLabels(S, sz, t) ==
    [i \in 1..NumRows(S) |->
        SubSeq(argsort(S[i], t), 1, SliceLen(NumCols(S), Max(sz)))]

\* torch.gather(annotations, index, dim=1) succeeds when index has no more
\* rows than annotations and every index is a column of annotations
GatherOk(A, index) ==
    /\ NumRows(index) <= NumRows(A)
    /\ \A i \in 1..NumRows(index) : \A j \in 1..Len(index[i]) :
          index[i][j] <= NumCols(A)

Gather(A, index) ==
    [i \in 1..NumRows(index) |-> [j \in 1..Len(index[i]) |-> A[i][index[i][j]]]]

\* mutant: the gathered annotations without the running sum
CumsumDropped(top) == top

\* annotations_of_top_max_s.cumsum(dim=1)
Cumsum(top) == [i \in 1..NumRows(top) |-> [j \in 1..Len(top[i]) |-> SumTo(top[i], j)]]

precision_at(A, S, sz, t) ==
    LET index == TopLabels(S, sz, t)
        m == SliceLen(NumCols(S), Max(sz))
    IN  IF ~GatherOk(A, index) THEN Raise
        ELSE IF \E s \in sz : Column(m, s - 1) = 0 THEN Raise
        ELSE LET cumsum == Cumsum(Gather(A, index))
             IN  Ok([s \in sz |->
                    Mean([i \in 1..NumRows(cumsum) |->
                            IntDiv(cumsum[i][Column(m, s - 1)], s)])])

\* mutant: the per-sample count is divided by the cutoff, as precision_at does
RecallDividedByCutoff(A, S, sz, t) == precision_at(A, S, sz, t)

\* rows of cumsum / num_rel under broadcasting of (ns, m) with (na, 1);
\* 0 when the shapes do not broadcast
BroadcastRows(ns, na) ==
    IF ns = na THEN ns ELSE IF ns = 1 THEN na ELSE IF na = 1 THEN ns ELSE 0

\* mutant: a sample without relevant classes counts as recall 0
RecallMasked(A, S, sz, t) ==
    LET index == TopLabels(S, sz, t)
        m == SliceLen(NumCols(S), Max(sz))
        ns == NumRows(S)
        na == NumRows(A)
    IN  IF ~GatherOk(A, index) THEN Raise
        ELSE IF BroadcastRows(ns, na) = 0 THEN Raise
        ELSE IF \E s \in sz : Column(m, s - 1) = 0 THEN Raise
        ELSE LET cumsum == Cumsum(Gather(A, index))
                 num_rel == [i \in 1..na |-> SumTo(A[i], NumCols(A))]
                 recall == [i \in 1..BroadcastRows(ns, na) |->
                              [j \in 1..m |->
                                 IF num_rel[IF na = 1 THEN 1 ELSE i] = 0 THEN <<0, 1>>
                                 ELSE IntDiv(cumsum[IF ns = 1 THEN 1 ELSE i][j],
                                             num_rel[IF na = 1 THEN 1 ELSE i])]]
             IN  Ok([s \in sz |->
                    Mean([i \in 1..BroadcastRows(ns, na) |->
                            recall[i][Column(m, s - 1)]])])

recall_at(A, S, sz, t) ==
    LET index == TopLabels(S, sz, t)
        m == SliceLen(NumCols(S), Max(sz))
        ns == NumRows(S)
        na == NumRows(A)
    IN  IF ~GatherOk(A, index) THEN Raise
        ELSE IF BroadcastRows(ns, na) = 0 THEN Raise
        ELSE IF \E s \in sz : Column(m, s - 1) = 0 THEN Raise
        ELSE LET cumsum == Cumsum(Gather(A, index))
                 num_rel == [i \in 1..na |-> SumTo(A[i], NumCols(A))]
                 recall == [i \in 1..BroadcastRows(ns, na) |->
                              [j \in 1..m |->
                                 IntDiv(cumsum[IF ns = 1 THEN 1 ELSE i][j],
                                        num_rel[IF na = 1 THEN 1 ELSE i])]]
             IN  Ok([s \in sz |->
                    Mean([i \in 1..BroadcastRows(ns, na) |->
                            recall[i][Column(m, s - 1)]])])

\* ------------------------------------------------- mean average precision
\* sklearn.metrics.average_precision_score(y_true, y_score, average=None),
\* one class column: with the distinct scores as thresholds, highest first,
\* AP = sum over thresholds of (R_n - R_{n-1}) * P_n, where P_n = tp / (tp + fp)
\* and R_n = tp / (number of positives) count the samples scored at or above
\* the threshold.  A column without positives has R_n = 0/0, so its AP is NaN
\* (the invalid division is what np.errstate(invalid='ignore') silences).
Column1(t, c) == [i \in 1..NumRows(t) |-> t[i][c]]

TruePositives(ytrue, yscore, th) ==
    Cardinality({i \in 1..Len(ytrue) : yscore[i] >= th /\ ytrue[i] = 1})

Retrieved(yscore, th) == Cardinality({i \in 1..Len(yscore) : yscore[i] >= th})

PrecisionAtThreshold(ytrue, yscore, th) ==
    IntDiv(TruePositives(ytrue, yscore, th), Retrieved(yscore, th))

RecallAtThreshold(ytrue, yscore, th) ==
    IntDiv(TruePositives(ytrue, yscore, th), NumTrue(ytrue))

\* recall at the next higher threshold; 0 above the highest
RecallBefore(ytrue, yscore, th) ==
    IF {i \in 1..Len(yscore) : yscore[i] > th} = {} THEN <<0, 1>>
    ELSE RecallAtThreshold(ytrue, yscore,
            CHOOSE x \in {yscore[i] : i \in 1..Len(yscore)} :
                /\ x > th
                /\ \A i \in 1..Len(yscore) : yscore[i] > th => yscore[i] >= x)

RECURSIVE SumOverThresholds(_, _, _)
SumOverThresholds(ytrue, yscore, ths) ==
    IF ths = {} THEN <<0, 1>>
    ELSE LET th == Max(ths)
         IN  FAdd(FMul(FSub(RecallAtThreshold(ytrue, yscore, th),
                            RecallBefore(ytrue, yscore, th)),
                       PrecisionAtThreshold(ytrue, yscore, th)),
                  SumOverThresholds(ytrue, yscore, ths \ {th}))

\* mutant: a column without positives scores 0 instead of NaN
AveragePrecisionZeroForEmpty(ytrue, yscore) ==
    IF NumTrue(ytrue) = 0 THEN <<0, 1>>
    ELSE SumOverThresholds(ytrue, yscore, {yscore[i] : i \in 1..Len(yscore)})

AveragePrecision(ytrue, yscore) ==
    SumOverThresholds(ytrue, yscore, {yscore[i] : i \in 1..Len(yscore)})

\* np.nanmean: the mean of the entries that are not NaN, NaN when there is none
RECURSIVE DropNaN(_)
DropNaN(seq) ==
    IF seq = <<>> THEN <<>>
    ELSE IF seq[1] = NaN THEN DropNaN(Tail(seq))
    ELSE <<seq[1]>> \o DropNaN(Tail(seq))

nanmean(seq) == Mean(DropNaN(seq))

mean_average_precision(A, S) ==
    LET average_precisions ==
            [c \in 1..NumCols(A) |-> AveragePrecision(Column1(A, c), Column1(S, c))]
    IN  Ok(nanmean(average_precisions))

\* ------------------------------------------------------------------ inputs
Rows(vals, c) == [1..c -> vals]
Tensors(vals, maxRows, c) == UNION {[1..n -> Rows(vals, c)] : n \in 1..maxRows}

\* requested cutoffs, valid (1..C) or not (-1, 0, C+1)
Cutoffs == (0 - 1)..(NumClasses + 1)
SizeSets == (SUBSET Cutoffs) \ {{}}

TieOrders == {"lower", "higher"}
NoResult == [fn |-> "none", status |-> "none", value |-> <<>>]

NoneRan == [reset |-> 0, update |-> 0, publish |-> 0]

\* no engine: the functions and the methods are called directly
NoEngine ==
    /\ handlers_started = <<>> /\ handlers_completed = <<>>
    /\ state_output = <<>> /\ state_metrics = <<>>
    /\ stage = "none"
    /\ attached = <<>>
    /\ ran = NoneRan

\* the pure functions are called without a metric instance
NoMetric ==
    /\ NoEngine
    /\ metric = "none"
    /\ _sorted_sizes = <<>>
    /\ avg_precision = NaN
    /\ y_true = <<>> /\ y_score = <<>>
    /\ _recall_at = <<>>
    /\ _y_true = <<>> /\ _y_score = <<>>
    /\ seen_true = <<>> /\ seen_score = <<>>
    /\ updates = 0 /\ fresh = TRUE

\* --------------------------------------------- one sample, ranked: SpecRank
InitRank ==
    /\ NoMetric
    /\ tie \in TieOrders
    /\ annotations \in Tensors({0, 1}, 1, NumClasses)
    /\ scores \in Tensors(0..MaxScore, 1, NumClasses)
    /\ sizes \in SizeSets
    /\ result = NoResult

CallPrecisionAt ==
    /\ result' = [fn |-> "precision_at"] @@ precision_at(annotations, scores, sizes, tie)
    /\ UNCHANGED <<tie, annotations, scores, sizes, objVars, histVars, engineVars>>

CallRecallAt ==
    /\ result' = [fn |-> "recall_at"] @@ recall_at(annotations, scores, sizes, tie)
    /\ UNCHANGED <<tie, annotations, scores, sizes, objVars, histVars, engineVars>>

NextRank == CallPrecisionAt \/ CallRecallAt

SpecRank == InitRank /\ [][NextRank]_vars

\* ----------------------------- tensors of any two shapes, ranked: SpecShape
Shapes(vals) ==
    UNION {Tensors(vals, MaxSamples, c) : c \in 1..NumClasses}

InitShape ==
    /\ NoMetric
    /\ tie \in TieOrders
    /\ annotations \in Shapes({0, 1})
    /\ scores \in Shapes(0..MaxScore)
    /\ sizes \in (SUBSET (1..NumCols(scores))) \ {{}}
    /\ result = NoResult

SpecShape == InitShape /\ [][NextRank]_vars

\* ------------------------------------------------- a batch, scored: SpecMAP
InitMAP ==
    /\ NoMetric
    /\ tie \in TieOrders
    /\ annotations \in Tensors({0, 1}, MaxSamples, NumClasses)
    /\ scores \in Tensors(0..MaxScore, NumRows(annotations), NumClasses)
    /\ NumRows(scores) = NumRows(annotations)
    /\ sizes = {}
    /\ result = NoResult

CallMeanAveragePrecision ==
    /\ result' = [fn |-> "mean_average_precision"]
                    @@ mean_average_precision(annotations, scores)
    /\ UNCHANGED <<tie, annotations, scores, sizes, objVars, histVars, engineVars>>

NextMAP == CallMeanAveragePrecision

SpecMAP == InitMAP /\ [][NextMAP]_vars

\* ------------------------------------------- the metric classes: SpecMetric
BatchClasses == {"MeanAveragePrecisionBatch", "RecallAtBatch"}
EpochClasses == {"MeanAveragePrecisionEpoch", "RecallAtEpoch"}
RecallClasses == {"RecallAtBatch", "RecallAtEpoch"}
MetricClasses == BatchClasses \cup EpochClasses

None == <<"None">>

\* an output (y_true, y_score) of the engine: two tensors of one shape
Batches ==
    UNION {[1..n -> Rows({0, 1}, NumClasses)] \X [1..n -> Rows(0..MaxScore, NumClasses)] :
              n \in 1..MaxBatchRows}

Range(seq) == {seq[i] : i \in 1..Len(seq)}

\* list(sorted(sizes))
RECURSIVE Sorted(_)
Sorted(S) ==
    IF S = {} THEN <<>>
    ELSE LET least == CHOOSE x \in S : \A y \in S : x <= y
         IN  <<least>> \o Sorted(S \ {least})

\* mutant: the buffers survive reset()
MAPEpochResetKeeps ==
    /\ metric = "MeanAveragePrecisionEpoch"
    /\ UNCHANGED <<y_true, y_score>>
    /\ seen_true' = <<>> /\ seen_score' = <<>>
    /\ fresh' = TRUE
    /\ result' = [fn |-> "reset", status |-> "ok", value |-> <<>>]
    /\ UNCHANGED <<tie, annotations, scores, sizes, metric, _sorted_sizes, updates, engineVars>>
    /\ UNCHANGED <<avg_precision, _recall_at, _y_true, _y_score>>

\* mutant: only the last buffered tensor
CatLast(tensors) == tensors[Len(tensors)]

\* torch.cat(tensors, dim=0) of a non-empty list
RECURSIVE Cat(_)
Cat(tensors) ==
    IF Len(tensors) = 1 THEN tensors[1]
    ELSE tensors[1] \o Cat(Tail(tensors))

\* mutant: entries already set are kept
DictKeep(old, new) ==
    [k \in DOMAIN old \cup DOMAIN new |->
        IF k \in DOMAIN old /\ old[k] # None THEN old[k] ELSE new[k]]

\* dict.update(new)
DictUpdate(old, new) ==
    [k \in DOMAIN old \cup DOMAIN new |->
        IF k \in DOMAIN new THEN new[k] ELSE old[k]]

Returned(fn, r) == [fn |-> fn] @@ r

\* the state Metric.__init__ leaves: the constructor ends in reset()
InitMetric ==
    /\ NoEngine
    /\ tie \in TieOrders
    /\ metric \in MetricClasses
    /\ sizes \in IF metric \in RecallClasses
                 THEN (SUBSET (1..NumClasses)) \ {{}} ELSE {{}}
    /\ _sorted_sizes = Sorted(sizes)
    /\ annotations = <<>> /\ scores = <<>>
    /\ result = NoResult
    /\ avg_precision = NaN
    /\ y_true = <<>> /\ y_score = <<>>
    /\ _recall_at = IF metric = "RecallAtBatch"
                    THEN [s \in Range(_sorted_sizes) |-> None] ELSE <<>>
    /\ _y_true = <<>> /\ _y_score = <<>>
    /\ seen_true = <<>> /\ seen_score = <<>>
    /\ updates = 0 /\ fresh = TRUE

\* history kept next to each method
NoteReset ==
    /\ seen_true' = <<>> /\ seen_score' = <<>>
    /\ fresh' = TRUE
    /\ result' = Returned("reset", Ok(<<>>))
    /\ UNCHANGED <<tie, annotations, scores, sizes, metric, _sorted_sizes, updates, engineVars>>

NoteUpdate(output) ==
    /\ annotations' = output[1] /\ scores' = output[2]
    /\ updates' = IF updates < 2 THEN updates + 1 ELSE 2
    /\ fresh' = FALSE
    /\ UNCHANGED <<tie, sizes, metric, _sorted_sizes, engineVars>>

\* the Epoch classes buffer what they are given: their history is bounded
NoteBuffered(output) ==
    /\ Len(seen_true) + NumRows(output[1]) <= MaxSamples
    /\ seen_true' = seen_true \o output[1]
    /\ seen_score' = seen_score \o output[2]

NoteCompute(r) ==
    /\ result' = Returned("compute", r)
    /\ UNCHANGED <<tie, annotations, scores, sizes, objVars, histVars, engineVars>>

\* MeanAveragePrecisionBatch
MAPBatchReset ==
    /\ metric = "MeanAveragePrecisionBatch"
    /\ avg_precision' = NaN
    /\ NoteReset
    /\ UNCHANGED <<y_true, y_score, _recall_at, _y_true, _y_score>>

MAPBatchUpdate(output) ==
    /\ metric = "MeanAveragePrecisionBatch"
    /\ avg_precision' = mean_average_precision(output[1], output[2]).value
    /\ result' = Returned("update", Ok(<<>>))
    /\ NoteUpdate(output)
    /\ UNCHANGED <<y_true, y_score, _recall_at, _y_true, _y_score, seen_true, seen_score>>

MAPBatchCompute ==
    /\ metric = "MeanAveragePrecisionBatch"
    /\ NoteCompute(Ok(avg_precision))

\* MeanAveragePrecisionEpoch
MAPEpochReset ==
    /\ metric = "MeanAveragePrecisionEpoch"
    /\ y_true' = <<>> /\ y_score' = <<>>
    /\ NoteReset
    /\ UNCHANGED <<avg_precision, _recall_at, _y_true, _y_score>>

MAPEpochUpdate(output) ==
    /\ metric = "MeanAveragePrecisionEpoch"
    /\ y_true' = Append(y_true, output[1])
    /\ y_score' = Append(y_score, output[2])
    /\ result' = Returned("update", Ok(<<>>))
    /\ NoteUpdate(output) /\ NoteBuffered(output)
    /\ UNCHANGED <<avg_precision, _recall_at, _y_true, _y_score>>

MAPEpochCompute ==
    /\ metric = "MeanAveragePrecisionEpoch"
    /\ NoteCompute(IF y_true = <<>> \/ y_score = <<>> THEN Raise
                   ELSE mean_average_precision(Cat(y_true), Cat(y_score)))

\* RecallAtBatch
RecallBatchReset ==
    /\ metric = "RecallAtBatch"
    /\ _recall_at' = [s \in Range(_sorted_sizes) |-> None]
    /\ NoteReset
    /\ UNCHANGED <<avg_precision, y_true, y_score, _y_true, _y_score>>

RecallBatchUpdate(output) ==
    /\ metric = "RecallAtBatch"
    /\ LET r == recall_at(output[1], output[2], Range(_sorted_sizes), tie)
       IN  IF r.status = "ok"
           THEN /\ _recall_at' = DictUpdate(_recall_at, r.value)
                /\ result' = Returned("update", Ok(<<>>))
           ELSE /\ _recall_at' = _recall_at
                /\ result' = Returned("update", Raise)
    /\ NoteUpdate(output)
    /\ UNCHANGED <<avg_precision, y_true, y_score, _y_true, _y_score, seen_true, seen_score>>

RecallBatchCompute ==
    /\ metric = "RecallAtBatch"
    /\ NoteCompute(Ok(_recall_at))

\* RecallAtEpoch
RecallEpochReset ==
    /\ metric = "RecallAtEpoch"
    /\ _y_true' = <<>> /\ _y_score' = <<>>
    /\ NoteReset
    /\ UNCHANGED <<avg_precision, y_true, y_score, _recall_at>>

RecallEpochUpdate(output) ==
    /\ metric = "RecallAtEpoch"
    /\ _y_true' = Append(_y_true, output[1])
    /\ _y_score' = Append(_y_score, output[2])
    /\ result' = Returned("update", Ok(<<>>))
    /\ NoteUpdate(output) /\ NoteBuffered(output)
    /\ UNCHANGED <<avg_precision, y_true, y_score, _recall_at>>

\* mutant: compute() hands out the value and discards what was buffered
RecallEpochComputeDiscards ==
    /\ metric = "RecallAtEpoch"
    /\ result' = Returned("compute",
                    IF _y_true = <<>> \/ _y_score = <<>> THEN Raise
                    ELSE recall_at(Cat(_y_true), Cat(_y_score), Range(_sorted_sizes), tie))
    /\ _y_true' = <<>> /\ _y_score' = <<>>
    /\ UNCHANGED <<tie, annotations, scores, sizes, metric, _sorted_sizes, avg_precision,
                   y_true, y_score, _recall_at, histVars, engineVars>>

RecallEpochCompute ==
    /\ metric = "RecallAtEpoch"
    /\ NoteCompute(IF _y_true = <<>> \/ _y_score = <<>> THEN Raise
                   ELSE recall_at(Cat(_y_true), Cat(_y_score), Range(_sorted_sizes), tie))

NextMetric ==
    \/ MAPBatchReset
    \/ \E output \in Batches : MAPBatchUpdate(output)
    \/ MAPBatchCompute
    \/ MAPEpochReset
    \/ \E output \in Batches : MAPEpochUpdate(output)
    \/ MAPEpochCompute
    \/ RecallBatchReset
    \/ \E output \in Batches : RecallBatchUpdate(output)
    \/ RecallBatchCompute
    \/ RecallEpochReset
    \/ \E output \in Batches : RecallEpochUpdate(output)
    \/ RecallEpochCompute

SpecMetric == InitMetric /\ [][NextMetric]_vars

\* ------------------------------ a RecallAtBatch on an engine: SpecEngine
MetricNames == {"recall", "recall_1"}

Handler(fn, name) == [fn |-> fn, name |-> name]

\* engine.has_event_handler(handler, event): the bound method is registered
\* for the event, whatever arguments it was registered with
HasEventHandler(handlers, fn) == \E i \in 1..Len(handlers) : handlers[i].fn = fn

\* f'{name}_{k}'
Key(name, k) == name \o "_" \o ToString(k)

\* for k, v in result.items(): engine.state.metrics[f'{name}_{k}'] = v
Publish(metrics, name, computed) ==
    LET keys == {Key(name, k) : k \in DOMAIN computed}
    IN  [key \in DOMAIN metrics \cup keys |->
            IF key \in keys
            THEN computed[CHOOSE k \in DOMAIN computed : Key(name, k) = key]
            ELSE metrics[key]]

\* what one handler does to the metric and to the engine's state:
\* started -> reset(); iteration_completed -> update(engine.state.output);
\* completed -> RecallAtBatch.completed(engine, name)
Handle(h, st, output) ==
    IF h.fn = "started"
    THEN [st EXCEPT !.recall = [k \in Range(_sorted_sizes) |-> None],
                    !.fresh = TRUE,
                    !.ran.reset = @ + 1]
    ELSE IF h.fn = "iteration_completed"
    THEN LET r == recall_at(output[1], output[2], Range(_sorted_sizes), tie)
         IN  [st EXCEPT !.recall = IF r.status = "ok" THEN DictUpdate(@, r.value) ELSE @,
                        !.y_true = output[1], !.y_score = output[2],
                        !.fresh = FALSE,
                        !.updates = IF @ < 2 THEN @ + 1 ELSE 2,
                        !.ran.update = @ + 1]
    ELSE [st EXCEPT !.metrics = Publish(@, h.name, st.recall),
                    !.ran.publish = @ + 1]

\* engine._fire_event: the handlers of the event run in registration order
RECURSIVE FireEvent(_, _, _)
FireEvent(handlers, st, output) ==
    IF handlers = <<>> THEN st
    ELSE FireEvent(Tail(handlers), Handle(handlers[1], st, output), output)

Fired(handlers, counts) ==
    FireEvent(handlers,
              [recall |-> _recall_at, metrics |-> state_metrics, ran |-> counts,
               fresh |-> fresh, updates |-> updates,
               y_true |-> annotations, y_score |-> scores],
              state_output)

Land(st) ==
    /\ _recall_at' = st.recall
    /\ state_metrics' = st.metrics
    /\ ran' = st.ran
    /\ fresh' = st.fresh
    /\ updates' = st.updates
    /\ annotations' = st.y_true
    /\ scores' = st.y_score

InitEngine ==
    /\ tie \in TieOrders
    /\ metric = "RecallAtBatch"
    /\ sizes \in (SUBSET (1..NumClasses)) \ {{}}
    /\ _sorted_sizes = Sorted(sizes)
    /\ annotations = <<>> /\ scores = <<>>
    /\ result = NoResult
    /\ avg_precision = NaN
    /\ y_true = <<>> /\ y_score = <<>>
    /\ _recall_at = [s \in Range(_sorted_sizes) |-> None]
    /\ _y_true = <<>> /\ _y_score = <<>>
    /\ seen_true = <<>> /\ seen_score = <<>>
    /\ updates = 0 /\ fresh = TRUE
    /\ handlers_started = <<>> /\ handlers_completed = <<>>
    /\ state_output = <<>> /\ state_metrics = <<>>
    /\ stage = "idle"
    /\ attached = <<>>
    /\ ran = NoneRan

\* mutant: the reset handler is registered on every call
AttachUnguarded(name) ==
    /\ stage \in {"idle", "completed"}
    /\ Len(attached) < MaxAttach
    /\ handlers_started' = Append(handlers_started, Handler("started", ""))
    /\ handlers_completed' =
          Append(IF ~HasEventHandler(handlers_completed, "iteration_completed")
                 THEN Append(handlers_completed, Handler("iteration_completed", ""))
                 ELSE handlers_completed,
                 Handler("completed", name))
    /\ attached' = Append(attached, name)
    /\ stage' = "idle"
    /\ UNCHANGED <<tie, callVars, objVars, histVars, state_output, state_metrics, ran>>

\* mutant: the publishing handler is registered ahead of the updating one
AttachPublishFirst(name) ==
    /\ stage \in {"idle", "completed"}
    /\ Len(attached) < MaxAttach
    /\ handlers_started' =
          IF ~HasEventHandler(handlers_started, "started")
          THEN Append(handlers_started, Handler("started", ""))
          ELSE handlers_started
    /\ handlers_completed' =
          LET published == Append(handlers_completed, Handler("completed", name))
          IN  IF ~HasEventHandler(handlers_completed, "iteration_completed")
              THEN Append(published, Handler("iteration_completed", ""))
              ELSE published
    /\ attached' = Append(attached, name)
    /\ stage' = "idle"
    /\ UNCHANGED <<tie, callVars, objVars, histVars, state_output, state_metrics, ran>>

\* mutant: the publishing handler is guarded like the other two
AttachPublishGuarded(name) ==
    /\ stage \in {"idle", "completed"}
    /\ Len(attached) < MaxAttach
    /\ handlers_started' =
          IF ~HasEventHandler(handlers_started, "started")
          THEN Append(handlers_started, Handler("started", ""))
          ELSE handlers_started
    /\ handlers_completed' =
          LET updating == IF ~HasEventHandler(handlers_completed, "iteration_completed")
                          THEN Append(handlers_completed, Handler("iteration_completed", ""))
                          ELSE handlers_completed
          IN  IF ~HasEventHandler(handlers_completed, "completed")
              THEN Append(updating, Handler("completed", name))
              ELSE updating
    /\ attached' = Append(attached, name)
    /\ stage' = "idle"
    /\ UNCHANGED <<tie, callVars, objVars, histVars, state_output, state_metrics, ran>>

\* BatchMetric.attach(engine, name), called between iterations
Attach(name) ==
    /\ stage \in {"idle", "completed"}
    /\ Len(attached) < MaxAttach
    /\ handlers_started' =
          IF ~HasEventHandler(handlers_started, "started")
          THEN Append(handlers_started, Handler("started", ""))
          ELSE handlers_started
    /\ handlers_completed' =
          Append(IF ~HasEventHandler(handlers_completed, "iteration_completed")
                 THEN Append(handlers_completed, Handler("iteration_completed", ""))
                 ELSE handlers_completed,
                 Handler("completed", name))
    /\ attached' = Append(attached, name)
    /\ stage' = "idle"
    /\ UNCHANGED <<tie, callVars, objVars, histVars, state_output, state_metrics, ran>>

\* the engine fires Events.ITERATION_STARTED
IterationStarted ==
    /\ stage \in {"idle", "completed"}
    /\ Land(Fired(handlers_started, NoneRan))
    /\ stage' = "started"
    /\ UNCHANGED <<tie, sizes, result, metric, _sorted_sizes, avg_precision, y_true,
                   y_score, _y_true, _y_score, seen_true, seen_score,
                   handlers_started, handlers_completed, state_output, attached>>

\* the engine's process function returns the batch's (y_true, y_score)
Process(output) ==
    /\ stage = "started"
    /\ state_output' = output
    /\ stage' = "processed"
    /\ UNCHANGED <<tie, callVars, objVars, histVars, handlers_started,
                   handlers_completed, state_metrics, attached, ran>>

\* the engine fires Events.ITERATION_COMPLETED
IterationCompleted ==
    /\ stage = "processed"
    /\ Land(Fired(handlers_completed, ran))
    /\ stage' = "completed"
    /\ UNCHANGED <<tie, sizes, result, metric, _sorted_sizes, avg_precision, y_true,
                   y_score, _y_true, _y_score, seen_true, seen_score,
                   handlers_started, handlers_completed, state_output, attached>>

NextEngine ==
    \/ \E name \in MetricNames : Attach(name)
    \/ IterationStarted
    \/ \E output \in Batches : Process(output)
    \/ IterationCompleted

SpecEngine == InitEngine /\ [][NextEngine]_vars

\* ----------------------------------------------------- claims on SpecMetric
Computed == result.fn = "compute"

\* C1: an Epoch-Scoped metric's compute(), after reset() and n >= 1 updates,
\* returns what the pure function returns on the row-wise concatenation of
\* everything update() received since, in update order.
EpochComputesConcatenation ==
    (Computed /\ metric \in EpochClasses /\ ~fresh)
        => result = Returned("compute",
                IF metric = "MeanAveragePrecisionEpoch"
                THEN mean_average_precision(seen_true, seen_score)
                ELSE recall_at(seen_true, seen_score, sizes, tie))

\* three buffered batches whose value is not that of the last batch alone
EpochComputesConcatenationWitness ==
    /\ Computed /\ result.status = "ok"
    /\ metric = "RecallAtEpoch" /\ Len(_y_true) = 3
    /\ result.value # recall_at(annotations, scores, sizes, tie).value
    /\ \A k \in sizes : result.value[k] # NaN

\* C2: a Batch-Scoped metric's compute(), after two update() calls (with or
\* without a reset() between them), returns the pure function's value on the
\* second batch alone, for every requested k.
BatchComputesLastBatch ==
    (Computed /\ metric \in BatchClasses /\ updates = 2 /\ ~fresh)
        => result = Returned("compute",
                IF metric = "MeanAveragePrecisionBatch"
                THEN mean_average_precision(annotations, scores)
                ELSE recall_at(annotations, scores, sizes, tie))

BatchComputesLastBatchWitness ==
    /\ Computed /\ metric = "RecallAtBatch" /\ updates = 2 /\ ~fresh
    /\ sizes = 1..NumClasses
    /\ result.value[1] = <<0, 1>> /\ result.value[NumClasses] = <<1, 1>>

\* C3 as stated: compute() after reset() and before any update() raises, for
\* every metric class.
ComputeBeforeUpdateRaises ==
    (Computed /\ fresh) => result.status = "raise"

\* C3 amended: compute() after reset() and before any update() raises for the
\* Epoch-Scoped metrics (empty accumulator); the Batch-Scoped metrics do not
\* raise, they return the unset value reset() stored: NaN for
\* MeanAveragePrecisionBatch, {k: None} for RecallAtBatch.
ComputeBeforeUpdate ==
    (Computed /\ fresh)
        => /\ metric \in EpochClasses => result.status = "raise"
           /\ metric = "MeanAveragePrecisionBatch" => result = Returned("compute", Ok(NaN))
           /\ metric = "RecallAtBatch"
                 => result = Returned("compute", Ok([k \in sizes |-> None]))

\* reset() after an update(), then compute()
ComputeBeforeUpdateWitness ==
    /\ Computed /\ fresh /\ updates >= 1
    /\ metric = "MeanAveragePrecisionEpoch"
    /\ result.status = "raise"

\* the buffered pairs of an Epoch-Scoped metric, as two lists of tensors
BufferedTrue == IF metric = "MeanAveragePrecisionEpoch" THEN y_true ELSE _y_true
BufferedScore == IF metric = "MeanAveragePrecisionEpoch" THEN y_score ELSE _y_score

\* C11 as stated: after the epoch-end compute() of an Epoch-Scoped metric the
\* metric holds no buffered (A,S) pairs.
ComputeDiscardsBuffer ==
    (Computed /\ metric \in EpochClasses /\ result.status = "ok")
        => BufferedTrue = <<>> /\ BufferedScore = <<>>

\* the buffer now: the pairs given to update() since the last reset(), in order
BufferIsSinceResetNow ==
    metric \in EpochClasses
        => /\ Len(BufferedTrue) = Len(BufferedScore)
           /\ (BufferedTrue = <<>>) = fresh
           /\ fresh => seen_true = <<>> /\ seen_score = <<>>
           /\ ~fresh => Cat(BufferedTrue) = seen_true /\ Cat(BufferedScore) = seen_score

\* C11 amended: the accumulator of an Epoch-Scoped metric is emptied by
\* reset() (what the engine calls at epoch start) and only by it: compute()
\* leaves the buffered pairs in place, every update() appends one pair, so
\* at any moment the buffer holds exactly the pairs passed to update() since
\* the last reset(), in update order, a compute() in between or not.
BufferIsSinceReset ==
    /\ []BufferIsSinceResetNow
    /\ [][(metric \in EpochClasses /\ result'.fn = "compute")
            => BufferedTrue' = BufferedTrue /\ BufferedScore' = BufferedScore]_vars
    /\ [][(metric \in EpochClasses /\ result'.fn = "reset")
            => BufferedTrue' = <<>> /\ BufferedScore' = <<>>]_vars
    /\ [][(metric \in EpochClasses /\ result'.fn = "update")
            => /\ BufferedTrue' = Append(BufferedTrue, annotations')
               /\ BufferedScore' = Append(BufferedScore, scores')]_vars

\* an update(), a reset(), an update(), then compute(): one pair is buffered,
\* and it is still there after the compute()
BufferIsSinceResetWitness ==
    /\ Computed /\ result.status = "ok"
    /\ metric = "MeanAveragePrecisionEpoch"
    /\ updates = 2 /\ Len(y_true) = 1 /\ Len(seen_true) = 1

ZeroRelevantRow(A) == \E i \in 1..NumRows(A) : NumTrue(A[i]) = 0

\* C12: recall_at divides by the per-sample relevant count without masking:
\* when some row of A has no relevant class, the value returned for every
\* requested k is NaN; so RecallAtEpoch's compute() is NaN for every k once
\* one zero-relevant sample was in any batch updated since the last reset(),
\* and RecallAtBatch's is NaN for every k when the batch has such a sample.
ZeroRelevantGivesNaN ==
    /\ (Computed /\ metric = "RecallAtEpoch" /\ ~fresh /\ ZeroRelevantRow(seen_true))
          => /\ result.status = "ok"
             /\ \A k \in sizes : result.value[k] = NaN
             /\ \A k \in sizes : recall_at(seen_true, seen_score, sizes, tie).value[k] = NaN
    /\ (Computed /\ metric = "RecallAtBatch" /\ ~fresh /\ ZeroRelevantRow(annotations))
          => /\ result.status = "ok"
             /\ \A k \in sizes : result.value[k] = NaN

\* three samples buffered, the first of them without a relevant class, the
\* last one with its relevant class ranked first
ZeroRelevantGivesNaNWitness ==
    /\ Computed /\ metric = "RecallAtEpoch" /\ Len(_y_true) = 3
    /\ NumTrue(seen_true[1]) = 0
    /\ NumTrue(seen_true[2]) >= 1 /\ NumTrue(seen_true[3]) >= 1
    /\ sizes = 1..NumClasses
    /\ recall_at(annotations, scores, sizes, tie).value[1] = <<1, 1>>
    /\ \A k \in sizes : result.value[k] = NaN

\* ----------------------------------------------------- claims on SpecEngine
SameNameTwice ==
    Len(attached) >= 2 /\ \A i \in 1..Len(attached) : attached[i] = attached[1]

Registered(handlers, fn) ==
    Cardinality({i \in 1..Len(handlers) : handlers[i].fn = fn})

\* C4 as stated: after attaching one Batch-Scoped metric twice under one name
\* the engine holds the same three callbacks as after the first attach (one
\* reset, one update, one publish), and each firing runs each of them once.
SecondAttachAddsNothing ==
    SameNameTwice
        => /\ Registered(handlers_started, "started") = 1
           /\ Registered(handlers_completed, "iteration_completed") = 1
           /\ Registered(handlers_completed, "completed") = 1
           /\ stage = "completed" => ran = [reset |-> 1, update |-> 1, publish |-> 1]

\* C4 amended: attaching again under the same name registers reset and update
\* once and one more publish callback per attach() call; each iteration then
\* runs reset() once, update() once and the publish once per attach() call,
\* every publish writing the same keys with the same values, so the published
\* map is what a single attach() gives.
RepeatedAttachRegistersPublishAgain ==
    SameNameTwice
        => /\ Registered(handlers_started, "started") = 1
           /\ Registered(handlers_completed, "iteration_completed") = 1
           /\ Registered(handlers_completed, "completed") = Len(attached)
           /\ stage = "completed"
                 => /\ ran = [reset |-> 1, update |-> 1, publish |-> Len(attached)]
                    /\ state_metrics =
                          Publish(<<>>, attached[1],
                                  recall_at(state_output[1], state_output[2], sizes, tie).value)

RepeatedAttachWitness ==
    /\ SameNameTwice /\ stage = "completed"
    /\ ran.publish = 2

\* C5: for a RecallAtBatch attached under name n with sizes K, after every
\* iteration-end firing the published map holds, for each k in K, under
\* "n_k" the recall_at of that iteration's batch at cutoff k: update runs
\* before publish, and neither the previous batch nor None is published.
PublishedIsThisBatch ==
    stage = "completed"
        => \A i \in 1..Len(attached) : \A k \in sizes :
              /\ Key(attached[i], k) \in DOMAIN state_metrics
              /\ state_metrics[Key(attached[i], k)] =
                    recall_at(state_output[1], state_output[2], sizes, tie).value[k]

\* second iteration of a run, the batch differing from the first one's
PublishedIsThisBatchWitness ==
    /\ stage = "completed" /\ attached = <<"recall">> /\ updates = 2
    /\ sizes = 1..NumClasses
    /\ state_metrics["recall_1"] = <<0, 1>>
    /\ state_metrics[Key("recall", NumClasses)] = <<1, 1>>

TwoNames == Len(attached) = 2 /\ attached[1] # attached[2]

PublishersOf(name) ==
    Cardinality({i \in 1..Len(handlers_completed) :
                    handlers_completed[i] = Handler("completed", name)})

\* C13: one Batch-Scoped metric attached under two different names n1 and n2
\* has its reset and update callbacks registered once and one publish
\* callback per name; every iteration runs reset() once and update() once,
\* and after iteration-end the entries published under n1 and under n2 hold
\* the same value for every k, the recall_at of the current batch.
TwoNamesOneMetric ==
    TwoNames
        => /\ Registered(handlers_started, "started") = 1
           /\ Registered(handlers_completed, "iteration_completed") = 1
           /\ Registered(handlers_completed, "completed") = 2
           /\ PublishersOf(attached[1]) = 1 /\ PublishersOf(attached[2]) = 1
           /\ stage \in {"started", "processed"} => ran.reset = 1 /\ ran.update = 0
           /\ stage = "completed"
                 => /\ ran = [reset |-> 1, update |-> 1, publish |-> 2]
                    /\ \A k \in sizes :
                          /\ Key(attached[1], k) \in DOMAIN state_metrics
                          /\ Key(attached[2], k) \in DOMAIN state_metrics
                          /\ state_metrics[Key(attached[1], k)]
                                = state_metrics[Key(attached[2], k)]
                          /\ state_metrics[Key(attached[2], k)] =
                                recall_at(state_output[1], state_output[2], sizes, tie).value[k]

\* the second iteration of a run, its batch published under both names
TwoNamesOneMetricWitness ==
    /\ TwoNames /\ stage = "completed" /\ updates = 2
    /\ sizes = 1..NumClasses
    /\ state_metrics[Key(attached[1], 1)] = <<0, 1>>
    /\ state_metrics[Key(attached[2], 1)] = <<0, 1>>
    /\ state_metrics[Key(attached[2], NumClasses)] = <<1, 1>>

\* ------------------------------------------------------- claims on SpecRank
Called(fn) == result.fn = fn /\ result.status = "ok"
Min2(a, b) == IF a < b THEN a ELSE b
ValidCutoffs == {k \in sizes : 1 <= k /\ k <= NumCols(scores)}
AllTied(row) == \A c, d \in 1..Len(row) : row[c] = row[d]

\* C6: precision_at and recall_at raise whenever some requested cutoff k is
\* non-positive or greater than the number of classes; no such call returns
\* a result map.
InvalidCutoffRaises ==
    (result.fn # "none" /\ \E k \in sizes : k <= 0 \/ k > NumCols(scores))
        => result.status = "raise"

\* C9: for one sample with at least one relevant class, Recall@k as returned
\* by recall_at is non-decreasing in k over the requested cutoffs 1..C.
RecallMonotone ==
    (Called("recall_at") /\ NumTrue(annotations[1]) >= 1)
        => \A k1, k2 \in ValidCutoffs :
              k1 <= k2 => FLeq(result.value[k1], result.value[k2])

RecallMonotoneWitness ==
    /\ Called("recall_at") /\ NumTrue(annotations[1]) >= 1
    /\ {1, 2} \subseteq sizes
    /\ result.value[1] # result.value[2]

\* C10 as stated: with all scores of the sample equal and ties going to the
\* lower index, Precision@k = min(number of true labels, k) / k.
TiedPrecisionClipped ==
    (Called("precision_at") /\ AllTied(scores[1]) /\ tie = "lower")
        => \A k \in ValidCutoffs :
              result.value[k] = IntDiv(Min2(NumTrue(annotations[1]), k), k)

\* the value a call on a sample of equal scores returns
TiedPrecisionFirstKNow ==
    (Called("precision_at") /\ AllTied(scores[1]))
        => \A k \in ValidCutoffs :
              /\ tie = "lower" => result.value[k] = IntDiv(SumTo(annotations[1], k), k)
              /\ FLeq(result.value[k], IntDiv(Min2(NumTrue(annotations[1]), k), k))
              /\ k = NumCols(scores)
                    => result.value[k] = IntDiv(NumTrue(annotations[1]), k)

\* C10 amended: with all scores of the sample equal, Precision@k is the number
\* of true labels among the k classes the sort puts first, over k: under the
\* lower-index-first order the true labels among the first k class columns;
\* never more than min(number of true labels, k) / k, and equal to it at k = C;
\* and a repeated call on the same input returns the same map.
TiedPrecisionFirstK ==
    /\ []TiedPrecisionFirstKNow
    /\ [][(result.fn = "precision_at" /\ result'.fn = "precision_at")
            => result' = result]_vars

TiedPrecisionWitness ==
    /\ Called("precision_at") /\ AllTied(scores[1]) /\ tie = "lower"
    /\ 1 \in sizes /\ NumTrue(annotations[1]) >= 1
    /\ result.value[1] = <<0, 1>>

\* ------------------------------------------------------ claims on SpecShape
SameShape(A, S) == NumRows(A) = NumRows(S) /\ NumCols(A) = NumCols(S)

\* C7: a call of precision_at or recall_at whose relevance and score matrices
\* differ in row count or column count raises; it never returns a result.
ShapeMismatchRaises ==
    (result.fn # "none" /\ ~SameShape(annotations, scores))
        => result.status = "raise"

\* -------------------------------------------------------- claims on SpecMAP
PositiveClasses(A) == {c \in 1..NumCols(A) : NumTrue(Column1(A, c)) >= 1}

RECURSIVE SumOfAP(_, _, _)
SumOfAP(A, S, cs) ==
    IF cs = {} THEN <<0, 1>>
    ELSE LET c == Max(cs)
         IN  FAdd(AveragePrecision(Column1(A, c), Column1(S, c)),
                  SumOfAP(A, S, cs \ {c}))

\* C8: mean_average_precision never raises; class columns without a positive
\* are skipped, the result is the mean of the APs of the classes that have a
\* positive sample, and it is NaN exactly when no class has one.
MeanOverPositiveClasses ==
    result.fn = "mean_average_precision"
        => /\ result.status = "ok"
           /\ (result.value = NaN) = (PositiveClasses(annotations) = {})
           /\ PositiveClasses(annotations) # {}
                 => result.value =
                        FDivInt(SumOfAP(annotations, scores, PositiveClasses(annotations)),
                                Cardinality(PositiveClasses(annotations)))

MeanOverPositiveClassesWitness ==
    /\ Called("mean_average_precision")
    /\ PositiveClasses(annotations) # {}
    /\ PositiveClasses(annotations) # 1..NumCols(annotations)
    /\ result.value # NaN /\ result.value # <<1, 1>>

====
